---- MODULE Spec2Model ----
(***************************************************************************)
(* A model of seisplot.py (Agile Geoscience, 2016): one run of main() on   *)
(* one SEG-Y section and one configuration.                                *)
(*                                                                         *)
(* Numbers.  The program computes in IEEE doubles; the model computes in   *)
(* exact rationals <<n, d>> (d > 0, lowest terms).  The three non-finite   *)
(* results numpy returns for a division by zero are <<1,0>> (inf),         *)
(* <<-1,0>> (-inf) and <<0,0>> (nan).  Amplitudes are integers.            *)
(***************************************************************************)
EXTENDS Integers, Sequences, FiniteSets

(***************************************************************************)
(* Bounds of the explored inputs.                                          *)
(***************************************************************************)
MaxTraces == 2
MaxSamples == 2
MaxSkip == 2

(***************************************************************************)
(* Rational arithmetic.                                                    *)
(***************************************************************************)
Abs(x) == IF x < 0 THEN -x ELSE x

RECURSIVE GCD(_, _)
GCD(a, b) == IF b = 0 THEN a ELSE GCD(b, a % b)

R(n, d) ==
    LET g == GCD(Abs(n), Abs(d))
        s == IF d < 0 THEN -1 ELSE 1
    IN  <<(s * n) \div g, (s * d) \div g>>

Int2R(n) == <<n, 1>>
Inf == <<1, 0>>
NegInf == <<-1, 0>>
NaN == <<0, 0>>
Finite(a) == a[2] # 0

RAdd(a, b) == R(a[1] * b[2] + b[1] * a[2], a[2] * b[2])
RSub(a, b) == R(a[1] * b[2] - b[1] * a[2], a[2] * b[2])
RMul(a, b) == R(a[1] * b[1], a[2] * b[2])
RDiv(a, b) == R(a[1] * b[2], a[2] * b[1])
RLt(a, b) == a[1] * b[2] < b[1] * a[2]
RLe(a, b) == a[1] * b[2] <= b[1] * a[2]
RMax(a, b) == IF RLt(a, b) THEN b ELSE a

\* numpy's float64 division: a zero divisor gives inf, -inf or nan (and a
\* RuntimeWarning), never an exception; nan propagates.
NpDiv(a, b) ==
    IF a = NaN \/ b = NaN THEN NaN
    ELSE IF ~Finite(b) THEN (IF Finite(a) THEN <<0, 1>> ELSE NaN)
    ELSE IF ~Finite(a) THEN (IF b[1] < 0 THEN <<-a[1], 0>> ELSE a)
    ELSE IF b[1] # 0 THEN RDiv(a, b)
    ELSE IF a[1] > 0 THEN Inf
    ELSE IF a[1] < 0 THEN NegInf
    ELSE NaN

NpAdd(a, b) == IF Finite(a) THEN RAdd(a, b) ELSE a

\* int(x) of a finite float: truncation toward zero.
Trunc(a) == IF a[1] >= 0 THEN a[1] \div a[2] ELSE -((-a[1]) \div a[2])

\* ceil(n / k) for n >= 0, k >= 1: the length of range(n)[::k].
CeilDiv(n, k) == (n + k - 1) \div k

(***************************************************************************)
(* Inputs: the traces readSEGY returns and the YAML configuration.         *)
(***************************************************************************)
\* Slopes of the explored traces: falling, flat (all zero) and rising.
Amps == {-1, 0, 1}
\* A one-sample trace (which numpy broadcasts) and the longest one.
SampleCounts == {1, MaxSamples}
SampleIntervals == {1000000, 2000000}

\* A trace whose samples rise linearly from a to a * n.
Ramp(a, n) == [i \in 1..n |-> a * i]

TraceRecord(n, d, a) ==
    [sample_count |-> n, sample_interval_us |-> d, samples |-> Ramp(a, n)]

TraceRecords ==
    {TraceRecord(n, d, a) : n \in SampleCounts, d \in SampleIntervals, a \in Amps}

\* The 4-trace x 3-sample dataset with amplitudes 1..12 (trace j holds
\* j, j + 4, j + 8), sampled every 1000 us.
EndToEndDataset ==
    [j \in 1..4 |->
        [sample_count |-> 3, sample_interval_us |-> 1000,
         samples |-> [i \in 1..3 |-> 4 * (i - 1) + j]]]

Datasets ==
    UNION {[1..n -> TraceRecords] : n \in 0..MaxTraces} \cup {EndToEndDataset}

\* The recognized options.  seisplot.py reads tpi, ips, skip and gain (and
\* fontsize, which no computation uses); a percentile entry is loaded with
\* the rest of the mapping and never read.
TpiValues == {<<0, 1>>, <<1, 1>>, <<1, 20>>}
IpsValues == {<<0, 1>>, <<5, 1>>}
SkipValues == 1..MaxSkip
GainValues == {<<2, 1>>}
PercentileValues == {99, 100}

Configs ==
    [tpi : TpiValues, ips : IpsValues, skip : SkipValues, gain : GainValues,
     percentile : PercentileValues]

(***************************************************************************)
(* The amplitude matrix: data[i][j] is sample i of column j (1-based).     *)
(***************************************************************************)
\* np.zeros((nsamples, ntraces))
Zeros(ns, nt) == [i \in 1..ns |-> [j \in 1..nt |-> 0]]

\* Whether data[:, j] = samples is accepted: the lengths agree, or the
\* right-hand side has one element and numpy broadcasts it.
Assignable(d, samples) == Len(samples) = Len(d) \/ Len(samples) = 1

\* A column assignment that repeats the first sample down the column.
SetColumnFirstSample(d, j, samples) ==
    [i \in 1..Len(d) |-> [d[i] EXCEPT ![j] = samples[1]]]

\* data[:, j] = samples
SetColumn(d, j, samples) ==
    [i \in 1..Len(d) |->
        [d[i] EXCEPT ![j] = IF Len(samples) = 1 THEN samples[1] ELSE samples[i]]]

\* data[:, j]
Column(d, j) == [i \in 1..Len(d) |-> d[i][j]]

NumColumns(d) == IF Len(d) = 0 THEN 0 ELSE Len(d[1])

\* np.ravel(data): row-major flattening.
RECURSIVE Ravel(_)
Ravel(d) == IF d = <<>> THEN <<>> ELSE Head(d) \o Ravel(Tail(d))

RECURSIVE Insert(_, _)
Insert(x, s) ==
    IF s = <<>> THEN <<x>>
    ELSE IF x <= Head(s) THEN <<x>> \o s
    ELSE <<Head(s)>> \o Insert(x, Tail(s))

RECURSIVE Sorted(_)
Sorted(s) == IF s = <<>> THEN <<>> ELSE Insert(Head(s), Sorted(Tail(s)))

\* np.percentile(values, q), linear interpolation between the two order
\* statistics around the virtual index q / 100 * (n - 1).
PercentileOf(values, q) ==
    LET s == Sorted(values)
        n == Len(s)
        pos == q * (n - 1)
        lo == pos \div 100
        fr == pos % 100
    IN  IF fr = 0 THEN Int2R(s[lo + 1])
        ELSE R(100 * s[lo + 1] + fr * (s[lo + 2] - s[lo + 1]), 100)

Percentile(d, q) == PercentileOf(Ravel(d), q)

RECURSIVE SeqMax(_)
SeqMax(s) ==
    IF Len(s) = 1 THEN s[1]
    ELSE LET t == SeqMax(Tail(s)) IN IF Head(s) > t THEN Head(s) ELSE t

\* np.amax(data), np.amin(data)
AMax(d) == SeqMax(Ravel(d))
AMin(d) == -SeqMax([k \in 1..Len(Ravel(d)) |-> -Ravel(d)[k]])

ClipPercentile == 99
WigglePercentile == 98
HistPercentile == 99

(***************************************************************************)
(* Time base and section size (main, lines 188-195).                       *)
(***************************************************************************)
\* 0.001 * np.arange(0, nsamples * dt, dt)
TBase(ns, d) == [k \in 1..ns |-> R((k - 1) * d, 1000)]

\* np.amax(tbase) - np.amin(tbase)
TSpan(tb) == RSub(tb[Len(tb)], tb[1])

\* ntraces / cfg['tpi']
SectionWidth(nt, tpi) == RDiv(Int2R(nt), tpi)

\* cfg['ips'] * (np.amax(tbase) - np.amin(tbase)) / 1000
SectionHeight(ips, tb) == RDiv(RMul(ips, TSpan(tb)), Int2R(1000))

(***************************************************************************)
(* Page layout (main, lines 224-249 and 297-320).  A rectangle is          *)
(* <<x, y, width, height>> in fractions of the page.                       *)
(***************************************************************************)
wsl == 6
mih == 10
fhh == 5
m == <<1, 2>>
mt == m
mb == m
ml == RMul(Int2R(2), m)
mr == RMul(Int2R(2), m)
mm == RDiv(mr, Int2R(2))
pad == <<1, 20>>
charty == <<1, 8>>

PageWidth(sw) == RAdd(RAdd(RAdd(RAdd(ml, sw), Int2R(wsl)), mr), mm)

PageHeight(ips, tb) ==
    RMax(Int2R(mih), RAdd(RAdd(SectionHeight(ips, tb), mt), mb))

SideLabelStart(sw, pw) == RDiv(RAdd(RAdd(ml, sw), mm), pw)

SeismicRect(sw, pw, ph) ==
    <<RDiv(ml, pw), RDiv(mb, ph), RDiv(sw, pw), RDiv(RSub(RSub(ph, mb), mt), ph)>>

TitleRect(s, pw, ph) ==
    <<s, RSub(Int2R(1), RDiv(mt, ph)), RDiv(Int2R(wsl), pw),
      RDiv(mt, RMul(Int2R(2), ph))>>

HeaderRect(s, pw, ph) ==
    <<s, RDiv(RSub(RSub(ph, mt), Int2R(fhh)), ph), RDiv(Int2R(wsl), pw),
      RDiv(Int2R(fhh), ph)>>

XHist(s) == RAdd(s, pad)
WHist(s, pw) ==
    RSub(RSub(RSub(Int2R(1), s), RDiv(ml, pw)), RMul(Int2R(2), pad))
ChartBase(ph) == RDiv(RMul(<<3, 2>>, mb), ph)

HistRect(s, pw, ph) ==
    <<XHist(s), RAdd(RAdd(ChartBase(ph), charty), pad), WHist(s, pw), charty>>

SpecRect(s, pw, ph) == <<XHist(s), ChartBase(ph), WHist(s, pw), charty>>

(***************************************************************************)
(* Wiggle traces (wigplot, lines 40-46).                                   *)
(***************************************************************************)
\* Positions that count the displayed traces: 0, 1, 2, ...
XPosDisplayIndex(nt, skip) == [k \in 1..CeilDiv(nt, skip) |-> k - 1]

\* np.arange(ntraces)[::skip]: the original 0-based column numbers.
XPos(nt, skip) == [k \in 1..CeilDiv(nt, skip) |-> (k - 1) * skip]

\* data[:, ::skip]
WigData(d, skip) ==
    [i \in 1..Len(d) |->
        [k \in 1..CeilDiv(NumColumns(d), skip) |-> d[i][(k - 1) * skip + 1]]]

\* gain * trace / sc + x
Normalized(gain, trace, sc, x) ==
    [i \in 1..Len(trace) |->
        NpAdd(NpDiv(RMul(gain, Int2R(trace[i])), sc), Int2R(x))]

(***************************************************************************)
(* Histogram and spectrum (plot_histogram 148-151, plot_spectrum 95-99).   *)
(***************************************************************************)
\* max(np.amax(data), abs(np.amin(data)))
Largest(d) == IF AMax(d) > Abs(AMin(d)) THEN AMax(d) ELSE Abs(AMin(d))

\* 100.0 / (clip_val / largest), in numpy doubles
BinsFloat(clip, largest) == NpDiv(Int2R(100), NpDiv(clip, Int2R(largest)))

\* the column plot_spectrum transforms: data[:, 1], 0-based
SpectrumColumn == 1

\* len(faxis) // 4
QuarterLen(n) == n \div 4

(***************************************************************************)
(* State of one run of main(target, cfg).  A local that Python has not     *)
(* bound yet holds 0, <<0, 1>> or <<>>; no action reads it before the      *)
(* statement that binds it.                                                *)
(***************************************************************************)
VARIABLES
    traces,     \* section.traces: the records readSEGY returned
    cfg,        \* the configuration mapping
    pc,         \* position in main
    i,          \* index of the running for loop (1-based)
    nsamples,   \* main: nsamples
    dt,         \* main: dt
    ntraces,    \* main: ntraces
    tbase,      \* main: tbase
    wsd,        \* main: wsd, width of the seismic data in inches
    hd,         \* main: hd, height of the seismic data in inches
    aspect,     \* main: aspect
    data,       \* main: data
    clip_val,   \* main: clip_val
    w,          \* main: w, page width in inches
    h,          \* main: h, page height in inches
    ssl,        \* main: ssl, start of the side label as a fraction
    axes,       \* the rectangles handed to fig.add_axes, in order
    sc,         \* wigplot: sc, the normalization factor
    xpos,       \* wigplot: xpos
    wigdata,    \* wigplot: wigdata
    bins,       \* plot_histogram: the bins argument of hist
    surface,    \* the drawing calls issued so far, in order
    err         \* the exception that ended the run, or "none"

vars ==
    <<traces, cfg, pc, i, nsamples, dt, ntraces, tbase, wsd, hd, aspect, data,
      clip_val, w, h, ssl, axes, sc, xpos, wigdata, bins, surface, err>>

Init ==
    /\ traces \in Datasets
    /\ cfg \in Configs
    /\ pc = "headers"
    /\ i = 1
    /\ nsamples = 0
    /\ dt = 0
    /\ ntraces = 0
    /\ tbase = <<>>
    /\ wsd = <<0, 1>>
    /\ hd = <<0, 1>>
    /\ aspect = <<0, 1>>
    /\ data = <<>>
    /\ clip_val = <<0, 1>>
    /\ w = <<0, 1>>
    /\ h = <<0, 1>>
    /\ ssl = <<0, 1>>
    /\ axes = <<>>
    /\ sc = <<0, 1>>
    /\ xpos = <<>>
    /\ wigdata = <<>>
    /\ bins = 0
    /\ surface = <<>>
    /\ err = "none"

\* The run ends with exception e at the current statement.
Raise(e) == pc' = "failed" /\ err' = e

\* lines 180-186: one iteration of the header loop.
ReadHeader ==
    /\ pc = "headers"
    /\ i <= Len(traces)
    /\ nsamples' = traces[i].sample_count
    /\ dt' = traces[i].sample_interval_us
    /\ i' = i + 1
    /\ UNCHANGED <<traces, cfg, pc, ntraces, tbase, wsd, hd, aspect, data,
                   clip_val, w, h, ssl, axes, sc, xpos, wigdata, bins,
                   surface, err>>

\* lines 188-197: after the header loop.  With no trace nsamples is unbound
\* (NameError at 189); ntraces / cfg['tpi'] divides Python numbers and
\* raises ZeroDivisionError for tpi = 0; wsd / hd divides by a numpy double.
ComputeSize ==
    /\ pc = "headers"
    /\ i > Len(traces)
    /\ ntraces' = Len(traces)
    /\ IF Len(traces) = 0
       THEN /\ Raise("NameError")
            /\ UNCHANGED <<tbase, wsd, hd, aspect, data, i>>
       ELSE /\ tbase' = TBase(nsamples, dt)
            /\ IF cfg.tpi[1] = 0
               THEN /\ Raise("ZeroDivisionError")
                    /\ UNCHANGED <<wsd, hd, aspect, data, i>>
               ELSE /\ wsd' = SectionWidth(ntraces', cfg.tpi)
                    /\ hd' = SectionHeight(cfg.ips, tbase')
                    /\ aspect' = NpDiv(wsd', hd')
                    /\ data' = Zeros(nsamples, ntraces')
                    /\ i' = 1
                    /\ pc' = "fill"
                    /\ err' = err
    /\ UNCHANGED <<traces, cfg, nsamples, dt, clip_val, w, h, ssl, axes, sc,
                   xpos, wigdata, bins, surface>>

\* lines 198-199: one iteration of data[:, i] = trace.data.
FillColumn ==
    /\ pc = "fill"
    /\ i <= ntraces
    /\ IF Assignable(data, traces[i].samples)
       THEN /\ data' = SetColumn(data, i, traces[i].samples)
            /\ i' = i + 1
            /\ UNCHANGED <<pc, err>>
       ELSE /\ Raise("ValueError")
            /\ UNCHANGED <<data, i>>
    /\ UNCHANGED <<traces, cfg, nsamples, dt, ntraces, tbase, wsd, hd, aspect,
                   clip_val, w, h, ssl, axes, sc, xpos, wigdata, bins, surface>>

\* line 201
ComputeClip ==
    /\ pc = "fill"
    /\ i > ntraces
    /\ clip_val' = Percentile(data, ClipPercentile)
    /\ pc' = "layout"
    /\ UNCHANGED <<traces, cfg, i, nsamples, dt, ntraces, tbase, wsd, hd,
                   aspect, data, w, h, ssl, axes, sc, xpos, wigdata, bins,
                   surface, err>>

\* lines 224-249: page size and the seismic axes.
Layout ==
    /\ pc = "layout"
    /\ w' = PageWidth(wsd)
    /\ h' = PageHeight(cfg.ips, tbase)
    /\ ssl' = SideLabelStart(wsd, w')
    /\ axes' = Append(axes, [name |-> "seismic", rect |-> SeismicRect(wsd, w', h')])
    /\ pc' = "wigplot"
    /\ UNCHANGED <<traces, cfg, i, nsamples, dt, ntraces, tbase, wsd, hd,
                   aspect, data, clip_val, sc, xpos, wigdata, bins, surface,
                   err>>

\* line 272 and wigplot lines 40-42
WigplotEnter ==
    /\ pc = "wigplot"
    /\ sc' = Percentile(data, WigglePercentile)
    /\ wigdata' = WigData(data, cfg.skip)
    /\ xpos' = XPos(ntraces, cfg.skip)
    /\ i' = 1
    /\ pc' = "wiggle"
    /\ UNCHANGED <<traces, cfg, nsamples, dt, ntraces, tbase, wsd, hd, aspect,
                   data, clip_val, w, h, ssl, axes, bins, surface, err>>

\* wigplot line 45: ax.plot(gain * trace / sc + x, tbase)
WigglePlot ==
    /\ pc = "wiggle"
    /\ i <= Len(xpos)
    /\ surface' = Append(surface,
          [op |-> "plot",
           xs |-> Normalized(cfg.gain, Column(wigdata, i), sc, xpos[i]),
           ys |-> tbase])
    /\ pc' = "wigfill"
    /\ UNCHANGED <<traces, cfg, i, nsamples, dt, ntraces, tbase, wsd, hd,
                   aspect, data, clip_val, w, h, ssl, axes, sc, xpos, wigdata,
                   bins, err>>

\* wigplot line 46: ax.fill_betweenx(tbase, gain * trace / sc + x, x2=x)
WiggleFill ==
    /\ pc = "wigfill"
    /\ surface' = Append(surface,
          [op |-> "fill",
           ys |-> tbase,
           x1 |-> Normalized(cfg.gain, Column(wigdata, i), sc, xpos[i]),
           x2 |-> xpos[i]])
    /\ i' = i + 1
    /\ pc' = "wiggle"
    /\ UNCHANGED <<traces, cfg, nsamples, dt, ntraces, tbase, wsd, hd, aspect,
                   data, clip_val, w, h, ssl, axes, sc, xpos, wigdata, bins,
                   err>>

\* wigplot returns; lines 273-298: the title axes.
Title ==
    /\ pc = "wiggle"
    /\ i > Len(xpos)
    /\ axes' = Append(axes, [name |-> "title", rect |-> TitleRect(ssl, w, h)])
    /\ pc' = "header"
    /\ UNCHANGED <<traces, cfg, i, nsamples, dt, ntraces, tbase, wsd, hd,
                   aspect, data, clip_val, w, h, ssl, sc, xpos, wigdata, bins,
                   surface, err>>

\* lines 301-304: the text header axes.
Header ==
    /\ pc = "header"
    /\ axes' = Append(axes, [name |-> "header", rect |-> HeaderRect(ssl, w, h)])
    /\ pc' = "hist"
    /\ UNCHANGED <<traces, cfg, i, nsamples, dt, ntraces, tbase, wsd, hd,
                   aspect, data, clip_val, w, h, ssl, sc, xpos, wigdata, bins,
                   surface, err>>

\* fig.add_axes with a negative width or height: accepted by the matplotlib
\* releases that do not validate the rectangle, ValueError in those that do.
AxesOutcomes(rect) ==
    IF rect[3][1] < 0 \/ rect[4][1] < 0 THEN {"ok", "ValueError"} ELSE {"ok"}

\* lines 312-317 and plot_histogram lines 148-153.  int() of nan raises
\* ValueError, int() of inf raises OverflowError, and hist rejects a bin
\* count below 1 with ValueError.
Histogram ==
    /\ pc = "hist"
    /\ axes' = Append(axes, [name |-> "hist", rect |-> HistRect(ssl, w, h)])
    /\ \E outcome \in AxesOutcomes(HistRect(ssl, w, h)) :
         LET largest == Largest(data)
             clip == Percentile(data, HistPercentile)
             bf == BinsFloat(clip, largest)
         IN  IF outcome # "ok"
             THEN Raise(outcome) /\ UNCHANGED <<bins, surface>>
             ELSE IF bf = NaN
             THEN Raise("ValueError") /\ UNCHANGED <<bins, surface>>
             ELSE IF ~Finite(bf)
             THEN Raise("OverflowError") /\ UNCHANGED <<bins, surface>>
             ELSE /\ bins' = Trunc(bf)
                  /\ IF bins' < 1
                     THEN Raise("ValueError") /\ UNCHANGED surface
                     ELSE /\ surface' = Append(surface,
                                [op |-> "hist", bins |-> bins', xlim |-> clip])
                          /\ pc' = "spectrum"
                          /\ err' = err
    /\ UNCHANGED <<traces, cfg, i, nsamples, dt, ntraces, tbase, wsd, hd,
                   aspect, data, clip_val, w, h, ssl, sc, xpos, wigdata>>

\* lines 320-321 and plot_spectrum lines 95-99.  data[:, 1] raises IndexError
\* when the matrix has one column.  The transform itself is not computed:
\* the call is recorded with the lengths of the two plotted series.
Spectrum ==
    /\ pc = "spectrum"
    /\ axes' = Append(axes, [name |-> "spectrum", rect |-> SpecRect(ssl, w, h)])
    /\ IF SpectrumColumn >= NumColumns(data)
       THEN Raise("IndexError") /\ UNCHANGED surface
       ELSE /\ surface' = Append(surface,
                  [op |-> "spectrum",
                   nfreq |-> QuarterLen(Len(Column(data, SpectrumColumn + 1))),
                   npower |-> QuarterLen(Len(Column(data, SpectrumColumn + 1)))])
            /\ pc' = "save"
            /\ err' = err
    /\ UNCHANGED <<traces, cfg, i, nsamples, dt, ntraces, tbase, wsd, hd,
                   aspect, data, clip_val, w, h, ssl, sc, xpos, wigdata, bins>>

\* line 325: fig.savefig(stem)
Save ==
    /\ pc = "save"
    /\ surface' = Append(surface, [op |-> "save"])
    /\ pc' = "done"
    /\ UNCHANGED <<traces, cfg, i, nsamples, dt, ntraces, tbase, wsd, hd,
                   aspect, data, clip_val, w, h, ssl, axes, sc, xpos, wigdata,
                   bins, err>>

Next ==
    \/ ReadHeader
    \/ ComputeSize
    \/ FillColumn
    \/ ComputeClip
    \/ Layout
    \/ WigplotEnter
    \/ WigglePlot
    \/ WiggleFill
    \/ Title
    \/ Header
    \/ Histogram
    \/ Spectrum
    \/ Save

Spec == Init /\ [][Next]_vars

(***************************************************************************)
(* Vocabulary of the properties.                                           *)
(***************************************************************************)
\* All records share the first record's sample count.
SameCount(ts) ==
    \A k \in 1..Len(ts) : ts[k].sample_count = ts[1].sample_count

\* All records share the first record's sample count and sample interval.
Consistent(ts) ==
    /\ SameCount(ts)
    /\ \A k \in 1..Len(ts) : ts[k].sample_interval_us = ts[1].sample_interval_us

\* The column loop has finished: the amplitude matrix is assembled.
MatrixBuilt == pc = "layout" \/ axes # <<>>

\* The page geometry has been computed and the seismic axes created.
LaidOut == axes # <<>>

\* wigplot has computed its normalization factor.
WiggleStarted == pc \in {"wiggle", "wigfill"} \/ Len(axes) >= 2

\* wigplot has returned.
WiggleReturned == Len(axes) >= 2

\* plot_histogram has been called (its axes were created and accepted).
HistEntered == Len(axes) >= 4 /\ AxesOutcomes(axes[4].rect) = {"ok"}

Calls(kind) == SelectSeq(surface, LAMBDA c : c.op = kind)

Rect(name) == (CHOOSE a \in {axes[k] : k \in 1..Len(axes)} : a.name = name).rect
HasRect(name) == \E k \in 1..Len(axes) : axes[k].name = name

\* Python's round(): to the nearest integer, ties to the even one.
Round(a) ==
    LET f == a[1] \div a[2]
        r2 == 2 * (a[1] - f * a[2])
    IN  IF r2 < a[2] THEN f
        ELSE IF r2 > a[2] THEN f + 1
        ELSE IF f % 2 = 0 THEN f ELSE f + 1

(***************************************************************************)
(* C1.  A dataset in which some record's sample count or sample interval   *)
(* differs from the first record's is rejected: no amplitude matrix is     *)
(* ever assembled for it.                                                  *)
(***************************************************************************)
C1_InconsistentDatasetRejected == ~Consistent(traces) => ~MatrixBuilt

(***************************************************************************)
(* C2.  For tpi > 0, ips > 0, at least one trace and a positive duration,  *)
(* the seismic axes' physical width over its physical height equals        *)
(* wsd / hd, whether or not the page height is the minimum page height.    *)
(* (rect.width * w) / (rect.height * h) = wsd / hd, cross-multiplied.      *)
(***************************************************************************)
C2_AspectPreserved ==
    (/\ LaidOut
     /\ cfg.tpi[1] > 0
     /\ cfg.ips[1] > 0
     /\ RLt(<<0, 1>>, TSpan(tbase)))
    => RMul(RMul(Rect("seismic")[3], w), hd) = RMul(RMul(Rect("seismic")[4], h), wsd)

(***************************************************************************)
(* C3 as stated.  wigplot with stride skip draws ceil(n / skip) wiggles,   *)
(* the k-th (k = 0, 1, ...) from column k * skip, and places it at         *)
(* x = k, its index among the displayed traces.                            *)
(***************************************************************************)
C3_DisplayIndexPositions ==
    /\ \A k \in 1..Len(Calls("fill")) :
          /\ Calls("fill")[k].x2 = k - 1
          /\ Calls("fill")[k].x1 =
                Normalized(cfg.gain, Column(data, (k - 1) * cfg.skip + 1), sc, k - 1)
    /\ \A k \in 1..Len(Calls("plot")) :
          Calls("plot")[k].xs =
                Normalized(cfg.gain, Column(data, (k - 1) * cfg.skip + 1), sc, k - 1)
    /\ WiggleReturned =>
          /\ Len(Calls("fill")) = CeilDiv(NumColumns(data), cfg.skip)
          /\ Len(Calls("plot")) = CeilDiv(NumColumns(data), cfg.skip)

(***************************************************************************)
(* C3 amended.  wigplot with stride skip draws ceil(n / skip) wiggles, the *)
(* k-th (k = 0, 1, ...) from column k * skip, and places it at             *)
(* x = k * skip, its original column number.                               *)
(***************************************************************************)
C3_OriginalIndexPositions ==
    /\ \A k \in 1..Len(Calls("fill")) :
          /\ Calls("fill")[k].x2 = (k - 1) * cfg.skip
          /\ Calls("fill")[k].x1 =
                Normalized(cfg.gain, Column(data, (k - 1) * cfg.skip + 1), sc,
                           (k - 1) * cfg.skip)
    /\ \A k \in 1..Len(Calls("plot")) :
          Calls("plot")[k].xs =
                Normalized(cfg.gain, Column(data, (k - 1) * cfg.skip + 1), sc,
                           (k - 1) * cfg.skip)
    /\ WiggleReturned =>
          /\ Len(Calls("fill")) = CeilDiv(NumColumns(data), cfg.skip)
          /\ Len(Calls("plot")) = CeilDiv(NumColumns(data), cfg.skip)

\* wigplot has returned after drawing every second trace of at least three,
\* with a finite non-zero normalization factor.
C3_Witness ==
    /\ WiggleReturned
    /\ cfg.skip = 2
    /\ NumColumns(data) >= 3
    /\ sc[1] # 0
    /\ Len(Calls("fill")) = 2
    /\ Calls("fill")[2].x2 = 2

(***************************************************************************)
(* C4.  With tpi <= 0 or ips <= 0 the run fails with                       *)
(* DegenerateLayoutError before ntraces / tpi or wsd / hd is evaluated:    *)
(* no division by zero is executed and no page geometry is produced.       *)
(***************************************************************************)
C4_DegenerateLayoutRejected ==
    (Len(traces) > 0 /\ (cfg.tpi[1] <= 0 \/ cfg.ips[1] <= 0))
    => /\ err # "ZeroDivisionError"
       /\ Finite(aspect)
       /\ ~LaidOut
       /\ (pc \notin {"headers"} => err = "DegenerateLayoutError")

(***************************************************************************)
(* C5.  For a non-empty dataset whose records share one sample count, the  *)
(* assembled matrix has sample_count rows and trace_count columns, and     *)
(* data[i][j] is sample i of trace j.                                      *)
(***************************************************************************)
C5_MatrixRoundTrip ==
    (MatrixBuilt /\ SameCount(traces))
    => /\ Len(data) = traces[1].sample_count
       /\ \A r \in 1..Len(data) : Len(data[r]) = Len(traces)
       /\ \A j \in 1..Len(traces) : Column(data, j) = traces[j].samples

\* A matrix of at least two rows assembled from two different traces.
C5_Witness ==
    /\ MatrixBuilt
    /\ SameCount(traces)
    /\ Len(traces) >= 2
    /\ Len(data) >= 2
    /\ traces[1].samples # traces[2].samples
    /\ traces[1].samples[1] # traces[1].samples[2]

(***************************************************************************)
(* C6.  The clip value is the configured percentile of the absolute        *)
(* amplitudes of the flattened matrix (so the largest absolute amplitude   *)
(* for percentile = 100, 12 on the 1..12 dataset), it is never negative,   *)
(* and the same value normalizes the wiggles and bounds the histogram.     *)
(***************************************************************************)
C6_ClipValue ==
    MatrixBuilt
    => /\ clip_val =
             PercentileOf([k \in 1..Len(Ravel(data)) |-> Abs(Ravel(data)[k])],
                          cfg.percentile)
       /\ (cfg.percentile = 100 => clip_val = Int2R(Largest(data)))
       /\ RLe(<<0, 1>>, clip_val)
       /\ (WiggleStarted => sc = clip_val)
       /\ \A k \in 1..Len(Calls("hist")) : Calls("hist")[k].xlim = clip_val

(***************************************************************************)
(* C7.  When the largest absolute amplitude is non-zero, plot_histogram    *)
(* asks for round(100 / (clip_val / largest)) bins, at least 1: the bin    *)
(* count is >= 1 also for all-negative matrices and non-positive clip      *)
(* values, and no arithmetic fault ends the run there.                     *)
(***************************************************************************)
C7_BinCount ==
    (HistEntered /\ Largest(data) # 0)
    => LET clip == Percentile(data, HistPercentile)
           expected == Round(RDiv(Int2R(100 * Largest(data)), clip))
       IN  /\ bins >= 1
           /\ err \notin {"ValueError", "OverflowError"}
           /\ clip[1] # 0 => bins = (IF expected < 1 THEN 1 ELSE expected)

(***************************************************************************)
(* C8.  When the wiggle normalization factor is zero, the zero is caught   *)
(* before gain * trace / sc is evaluated: no wiggle line or fill reaches   *)
(* the drawing surface and the figure is never saved.                      *)
(***************************************************************************)
C8_ZeroNormalizationCaught ==
    (WiggleStarted /\ sc[1] = 0)
    => /\ Calls("plot") = <<>>
       /\ Calls("fill") = <<>>
       /\ Calls("save") = <<>>

(***************************************************************************)
(* C9.  Each of the title, header, histogram and spectrum rectangles has   *)
(* positive width and height, lies between the side-label start and the    *)
(* right margin and between the bottom and the top margin, and no two of   *)
(* them overlap, for every page width.                                     *)
(***************************************************************************)
SidePanels == {"title", "header", "hist", "spectrum"}

Right(r) == RAdd(r[1], r[3])
Top(r) == RAdd(r[2], r[4])

Overlap(a, b) ==
    /\ RLt(a[1], Right(b)) /\ RLt(b[1], Right(a))
    /\ RLt(a[2], Top(b)) /\ RLt(b[2], Top(a))

C9_SidePanelsWellPlaced ==
    /\ \A n \in SidePanels :
          HasRect(n) =>
             /\ RLt(<<0, 1>>, Rect(n)[3])
             /\ RLt(<<0, 1>>, Rect(n)[4])
             /\ RLe(ssl, Rect(n)[1])
             /\ RLe(Right(Rect(n)), RSub(Int2R(1), RDiv(mr, w)))
             /\ RLe(RDiv(mb, h), Rect(n)[2])
             /\ RLe(Top(Rect(n)), RSub(Int2R(1), RDiv(mt, h)))
    /\ \A n1, n2 \in SidePanels :
          (n1 # n2 /\ HasRect(n1) /\ HasRect(n2)) => ~Overlap(Rect(n1), Rect(n2))

(***************************************************************************)
(* C10.  For every consistent dataset with at least one trace, the column  *)
(* plot_spectrum reads exists (no IndexError, so the run can reach the     *)
(* save), and both plotted series have floor(sample_count / 4) entries.    *)
(***************************************************************************)
C10_SpectrumColumnExists ==
    (Len(traces) >= 1 /\ Consistent(traces))
    => /\ err # "IndexError"
       /\ (HasRect("spectrum") => SpectrumColumn < NumColumns(data))
       /\ \A k \in 1..Len(Calls("spectrum")) :
             /\ Calls("spectrum")[k].nfreq = traces[1].sample_count \div 4
             /\ Calls("spectrum")[k].npower = traces[1].sample_count \div 4

====
